---------------------------- MODULE Spec2Model ----------------------------
(***************************************************************************)
(* Model of the msa-rpi-server bus bridge.                                 *)
(*                                                                         *)
(*   uplink   : src/src/py/read_i2c.py  (bus -> POST /sensors/add)         *)
(*   downlink : src/src/c/iot_informer/rpi_server_iot_informer.py          *)
(*              (GET /sensors/get -> bus)                                  *)
(*                                                                         *)
(* Python strings are sequences of code points, bytes are integers in      *)
(* 0..255.  chr() builds a one-character string, ord() reads its code      *)
(* point back, ''.join() concatenates.                                     *)
(***************************************************************************)
EXTENDS Integers, Sequences, FiniteSets, TLC

VARIABLES
    u_pc,        \* uplink main(): position in the loop body
    data_bytes,  \* read_i2c_string_block: the accumulator list
    u_rx,        \* bus read transactions issued by the running iteration
    data_str,    \* main(): result of read_i2c_string_block
    temp,        \* main(): first unpacked field
    hum,         \* main(): second unpacked field
    posts,       \* POST attempts issued by the running iteration
    u_log,       \* lines printed by the running uplink iteration
    d_pc,        \* downlink main(): position in the loop body
    d_resp,      \* the HTTP response received by the running iteration
    status,      \* main(): result of get_latest_bathroom_status
    w_sensor_type, \* send_i2c_status: first argument
    w_value,     \* send_i2c_status: second argument
    d_tx,        \* bus write transactions issued by the running iteration
    d_log,       \* lines printed by the running downlink iteration
    API_KEY,        \* config.API_KEY, read once when config is imported
    ADMIN_USER,     \* config.ADMIN_USER
    ADMIN_PASSWORD, \* config.ADMIN_PASSWORD
    sensor_data, \* backend: the rows of table sensor_data, oldest first
    b_req,       \* backend: the request handled last
    b_resp       \* backend: the answer to it

uvars == <<u_pc, data_bytes, u_rx, data_str, temp, hum, posts, u_log>>
dvars == <<d_pc, d_resp, status, w_sensor_type, w_value, d_tx, d_log>>
cvars == <<API_KEY, ADMIN_USER, ADMIN_PASSWORD>>
bvars == <<sensor_data, b_req, b_resp>>
vars == <<u_pc, data_bytes, u_rx, data_str, temp, hum, posts, u_log,
          d_pc, d_resp, status, w_sensor_type, w_value, d_tx, d_log,
          API_KEY, ADMIN_USER, ADMIN_PASSWORD, sensor_data, b_req, b_resp>>

---------------------------------------------------------------------------
(* Program constants *)

I2C_BUS == 1
I2C_ADDRESS == 8
BLOCK_LEN == 20
SENTINEL == 35
COMMA == 44

\* "bathroom_main"
BATHROOM_MAIN == <<98, 97, 116, 104, 114, 111, 111, 109, 95, 109, 97, 105, 110>>
\* "room_entrance", a sensor type other than the polled one
ROOM_ENTRANCE == <<114, 111, 111, 109, 95, 101, 110, 116, 114, 97, 110, 99, 101>>

---------------------------------------------------------------------------
(* Bounds of the model *)

\* block reads one decode may issue before the model stops following it
MaxBlockReads == 2
\* elements in the JSON array answered by GET /sensors/get
MaxElems == 2
\* rows the table sensor_data may hold before the model stops inserting
MaxRows == 2

---------------------------------------------------------------------------
(* Python builtins used by the two programs *)

Chr(b) == <<b>>
Ord(c) == c[1]

RECURSIVE Join(_)
Join(strs) == IF strs = <<>> THEN <<>> ELSE Head(strs) \o Join(Tail(strs))

Contains(s, ch) == \E i \in 1..Len(s) : s[i] = ch

\* str.split(sep) for a one-character separator: splits on every occurrence
RECURSIVE Split(_, _)
Split(s, sep) ==
    IF Contains(s, sep)
    THEN LET i == CHOOSE k \in 1..Len(s) :
                      s[k] = sep /\ \A j \in 1..(k - 1) : s[j] # sep
         IN <<SubSeq(s, 1, i - 1)>> \o Split(SubSeq(s, i + 1, Len(s)), sep)
    ELSE <<s>>

IsDigit(c) == c \in 48..57
IsSpace(c) == c \in {9, 10, 11, 12, 13, 32}

RECURSIVE LStrip(_)
LStrip(s) == IF s # <<>> /\ IsSpace(Head(s)) THEN LStrip(Tail(s)) ELSE s

RECURSIVE RStrip(_)
RStrip(s) == IF s # <<>> /\ IsSpace(s[Len(s)])
             THEN RStrip(SubSeq(s, 1, Len(s) - 1)) ELSE s

RECURSIVE DigitsVal(_)
DigitsVal(ds) == IF ds = <<>> THEN 0
                 ELSE 10 * DigitsVal(SubSeq(ds, 1, Len(ds) - 1)) + (ds[Len(ds)] - 48)

RECURSIVE StripZeros(_)
StripZeros(ds) == IF ds # <<>> /\ ds[Len(ds)] = 48
                  THEN StripZeros(SubSeq(ds, 1, Len(ds) - 1)) ELSE ds

RECURSIVE NatStr(_)
NatStr(n) == IF n < 10 THEN <<48 + n>> ELSE NatStr(n \div 10) \o <<48 + (n % 10)>>

\* a value that may be missing (a dict member, a form field, a header, an
\* environment variable), None/null, or a str
Absent == [kind |-> "absent", s |-> <<>>]
Null == [kind |-> "null", s |-> <<>>]
Str(s) == [kind |-> "str", s |-> s]

\* truth value of an optional str: None and "" are false
Truthy(v) == v.kind = "str" /\ v.s # <<>>

\* v or ""
OrEmpty(v) == IF Truthy(v) THEN v.s ELSE <<>>

\* A float is kept as its exact decimal value: sign, integer part and
\* fractional digits without trailing zeros.
Float(neg, ip, frac) == [neg |-> neg, ip |-> ip, frac |-> frac]
Zero == Float(FALSE, 0, <<>>)

\* float(s) for a str over whitespace, sign, digits, '.' and characters that
\* occur in no numeric literal; ok = FALSE stands for ValueError
ParseFloat(s) ==
    LET t    == RStrip(LStrip(s))
        sgn  == t # <<>> /\ Head(t) \in {43, 45}
        body == IF sgn THEN Tail(t) ELSE t
        dots == {i \in 1..Len(body) : body[i] = 46}
        dot  == IF dots = {} THEN Len(body) + 1 ELSE CHOOSE i \in dots : TRUE
        ipd  == SubSeq(body, 1, dot - 1)
        frd  == SubSeq(body, dot + 1, Len(body))
    IN IF /\ Cardinality(dots) <= 1
          /\ \A i \in 1..Len(ipd) : IsDigit(ipd[i])
          /\ \A i \in 1..Len(frd) : IsDigit(frd[i])
          /\ Len(ipd) + Len(frd) >= 1
       THEN [ok |-> TRUE,
             f |-> Float(sgn /\ Head(t) = 45, DigitsVal(ipd), StripZeros(frd))]
       ELSE [ok |-> FALSE, f |-> Zero]

\* str(f) / format(f, '') of a float: shortest decimal, always with a
\* fractional part
FloatStr(f) ==
    (IF f.neg THEN <<45>> ELSE <<>>) \o NatStr(f.ip) \o <<46>>
        \o (IF f.frac = <<>> THEN <<48>> ELSE f.frac)

---------------------------------------------------------------------------
(* Inputs *)

\* a 20-byte block: payload s at offset k, '1' everywhere else
MakeBlock(k, s) ==
    [i \in 1..BLOCK_LEN |-> IF i > k /\ i <= k + Len(s) THEN s[i - k] ELSE 49]

BlockPayloads ==
    { <<>>, <<COMMA>>, <<SENTINEL>>, <<COMMA, 50, SENTINEL>>, <<SENTINEL, SENTINEL>>,
      <<120, COMMA, SENTINEL>> }

Blocks == { MakeBlock(k, s) : k \in 0..(BLOCK_LEN - 3), s \in BlockPayloads }
              \cup { MakeBlock(k, <<SENTINEL>>) : k \in 0..(BLOCK_LEN - 1) }
              \cup { MakeBlock(k, <<COMMA>>) : k \in 0..(BLOCK_LEN - 1) }

PostOutcomes == {"ok", "timeout", "refused", "non2xx"}
GetOutcomes == {"ok", "timeout", "refused", "non2xx", "badjson"}

---------------------------------------------------------------------------
(* Uplink: src/src/py/read_i2c.py *)

\* ScanBlock with the test and the append swapped: the byte is appended
\* before it is compared with '#'
RECURSIVE ScanBlock_AppendFirst(_, _, _)
ScanBlock_AppendFirst(acc, block, i) ==
    IF i > Len(block) THEN [found |-> FALSE, acc |-> acc]
    ELSE IF Chr(block[i]) = <<SENTINEL>>
         THEN [found |-> TRUE, acc |-> Append(acc, block[i])]
    ELSE ScanBlock_AppendFirst(Append(acc, block[i]), block, i + 1)

\* the for loop over one block: stops at the first '#', else appends
RECURSIVE ScanBlock(_, _, _)
ScanBlock(acc, block, i) ==
    IF i > Len(block) THEN [found |-> FALSE, acc |-> acc]
    ELSE IF Chr(block[i]) = <<SENTINEL>> THEN [found |-> TRUE, acc |-> acc]
    ELSE ScanBlock(Append(acc, block[i]), block, i + 1)

ReadTx(ok, block) ==
    [bus |-> I2C_BUS, addr |-> I2C_ADDRESS, reg |-> 0, length |-> BLOCK_LEN,
     ok |-> ok, block |-> block]

\* U_Call that hands an empty string to the split without a bus read
U_Call_NoRead ==
    /\ u_pc = "call"
    /\ data_bytes' = <<>>
    /\ u_pc' = "parse"
    /\ UNCHANGED <<u_rx, data_str, temp, hum, posts, u_log>>
    /\ UNCHANGED <<dvars, cvars, bvars>>

\* U_Call that enters the decode with the accumulator of the last decode
U_Call_KeepsBytes ==
    /\ u_pc = "call"
    /\ u_pc' = "read"
    /\ UNCHANGED <<data_bytes, u_rx, data_str, temp, hum, posts, u_log>>
    /\ UNCHANGED <<dvars, cvars, bvars>>

\* main line 129 entering read_i2c_string_block, line 78
U_Call ==
    /\ u_pc = "call"
    /\ data_bytes' = <<>>
    /\ u_pc' = "read"
    /\ UNCHANGED <<u_rx, data_str, temp, hum, posts, u_log>>
    /\ UNCHANGED <<dvars, cvars, bvars>>

\* U_Read that catches a failed bus transaction and reads again
U_Read_Retries(B) ==
    /\ u_pc = "read"
    /\ Len(u_rx) < MaxBlockReads
    /\ \/ /\ u_rx' = Append(u_rx, ReadTx(FALSE, <<>>))
          /\ u_log' = Append(u_log, "Error reading I2C")
          /\ u_pc' = "read"
          /\ UNCHANGED <<data_bytes, data_str>>
       \/ \E block \in B :
            LET r == ScanBlock(data_bytes, block, 1) IN
            /\ u_rx' = Append(u_rx, ReadTx(TRUE, block))
            /\ data_bytes' = r.acc
            /\ IF r.found
               THEN /\ data_str' = Join([i \in 1..Len(r.acc) |-> Chr(r.acc[i])])
                    /\ u_pc' = "parse"
               ELSE /\ UNCHANGED data_str
                    /\ u_pc' = "read"
            /\ UNCHANGED u_log
    /\ UNCHANGED <<temp, hum, posts>>
    /\ UNCHANGED <<dvars, cvars, bvars>>

\* one turn of the while loop of read_i2c_string_block; a failing bus
\* transaction raises into the except clause of main
U_Read(B) ==
    /\ u_pc = "read"
    /\ Len(u_rx) < MaxBlockReads
    /\ \/ /\ u_rx' = Append(u_rx, ReadTx(FALSE, <<>>))
          /\ u_log' = Append(u_log, "Error reading I2C")
          /\ u_pc' = "sleep"
          /\ UNCHANGED <<data_bytes, data_str>>
       \/ \E block \in B :
            LET r == ScanBlock(data_bytes, block, 1) IN
            /\ u_rx' = Append(u_rx, ReadTx(TRUE, block))
            /\ data_bytes' = r.acc
            /\ IF r.found
               THEN /\ data_str' = Join([i \in 1..Len(r.acc) |-> Chr(r.acc[i])])
                    /\ u_pc' = "parse"
               ELSE /\ UNCHANGED data_str
                    /\ u_pc' = "read"
            /\ UNCHANGED u_log
    /\ UNCHANGED <<temp, hum, posts>>
    /\ UNCHANGED <<dvars, cvars, bvars>>

\* U_Parse that forwards an unsplit string as the first field
U_Parse_ForwardsUnsplit ==
    /\ u_pc = "parse"
    /\ LET parts == Split(data_str, COMMA) IN
       IF Len(parts) <= 2
       THEN /\ temp' = parts[1]
            /\ hum' = IF Len(parts) = 2 THEN parts[2] ELSE <<>>
            /\ u_pc' = "send_temp"
            /\ UNCHANGED u_log
       ELSE /\ u_log' = Append(u_log, "Error reading I2C")
            /\ u_pc' = "sleep"
            /\ UNCHANGED <<temp, hum>>
    /\ UNCHANGED <<data_bytes, u_rx, data_str, posts>>
    /\ UNCHANGED <<dvars, cvars, bvars>>

\* U_Parse that forwards a frame only when both fields are digit strings
U_Parse_Validates ==
    /\ u_pc = "parse"
    /\ IF Contains(data_str, COMMA)
       THEN LET parts == Split(data_str, COMMA) IN
            IF /\ Len(parts) = 2
               /\ \A k \in 1..2 : /\ parts[k] # <<>>
                                  /\ \A i \in 1..Len(parts[k]) : IsDigit(parts[k][i])
            THEN /\ temp' = parts[1]
                 /\ hum' = parts[2]
                 /\ u_pc' = "send_temp"
                 /\ UNCHANGED u_log
            ELSE /\ u_log' = Append(u_log, "Error reading I2C")
                 /\ u_pc' = "sleep"
                 /\ UNCHANGED <<temp, hum>>
       ELSE /\ u_log' = Append(u_log, "Invalid I2C data")
            /\ u_pc' = "sleep"
            /\ UNCHANGED <<temp, hum>>
    /\ UNCHANGED <<data_bytes, u_rx, data_str, posts>>
    /\ UNCHANGED <<dvars, cvars, bvars>>

\* main lines 131-136 up to the first send; unpacking a list whose length
\* is not 2 raises ValueError into the except clause
U_Parse ==
    /\ u_pc = "parse"
    /\ IF Contains(data_str, COMMA)
       THEN LET parts == Split(data_str, COMMA) IN
            IF Len(parts) = 2
            THEN /\ temp' = parts[1]
                 /\ hum' = parts[2]
                 /\ u_pc' = "send_temp"
                 /\ UNCHANGED u_log
            ELSE /\ u_log' = Append(u_log, "Error reading I2C")
                 /\ u_pc' = "sleep"
                 /\ UNCHANGED <<temp, hum>>
       ELSE /\ u_log' = Append(u_log, "Invalid I2C data")
            /\ u_pc' = "sleep"
            /\ UNCHANGED <<temp, hum>>
    /\ UNCHANGED <<data_bytes, u_rx, data_str, posts>>
    /\ UNCHANGED <<dvars, cvars, bvars>>

\* send_to_server: one POST; every failure is a RequestException and is
\* caught inside the function
send_to_server(sensor_type, value, outcome) ==
    /\ posts' = Append(posts, [sensor_type |-> sensor_type, value |-> value,
                               key |-> API_KEY, outcome |-> outcome])
    /\ u_log' = Append(u_log, IF outcome = "ok" THEN "Sent" ELSE "Error sending")

\* U_SendTemp whose failed POST raises into the except clause of main
U_SendTemp_Raises ==
    /\ u_pc = "send_temp"
    /\ \E outcome \in PostOutcomes :
          /\ send_to_server("temperature_msa_room", temp, outcome)
          /\ u_pc' = IF outcome = "ok" THEN "send_hum" ELSE "sleep"
    /\ UNCHANGED <<data_bytes, u_rx, data_str, temp, hum>>
    /\ UNCHANGED <<dvars, cvars, bvars>>

\* U_SendTemp that posts the first field under the humidity name
U_SendTemp_AsHumidity ==
    /\ u_pc = "send_temp"
    /\ \E outcome \in PostOutcomes :
          send_to_server("humidity_msa_room", temp, outcome)
    /\ u_pc' = "send_hum"
    /\ UNCHANGED <<data_bytes, u_rx, data_str, temp, hum>>
    /\ UNCHANGED <<dvars, cvars, bvars>>

U_SendTemp ==
    /\ u_pc = "send_temp"
    /\ \E outcome \in PostOutcomes :
          send_to_server("temperature_msa_room", temp, outcome)
    /\ u_pc' = "send_hum"
    /\ UNCHANGED <<data_bytes, u_rx, data_str, temp, hum>>
    /\ UNCHANGED <<dvars, cvars, bvars>>

\* U_SendHum that repeats a failed POST once
U_SendHum_Resends ==
    /\ u_pc = "send_hum"
    /\ \E outcome \in PostOutcomes :
          /\ send_to_server("humidity_msa_room", hum, outcome)
          /\ u_pc' = IF outcome = "ok" \/ Len(posts) >= 2 THEN "sleep" ELSE "send_hum"
    /\ UNCHANGED <<data_bytes, u_rx, data_str, temp, hum>>
    /\ UNCHANGED <<dvars, cvars, bvars>>

U_SendHum ==
    /\ u_pc = "send_hum"
    /\ \E outcome \in PostOutcomes :
          send_to_server("humidity_msa_room", hum, outcome)
    /\ u_pc' = "sleep"
    /\ UNCHANGED <<data_bytes, u_rx, data_str, temp, hum>>
    /\ UNCHANGED <<dvars, cvars, bvars>>

\* time.sleep(poll_interval), then the next turn of while True.  The locals
\* of main are dead here (each is assigned before its next use), and the
\* records of the finished iteration are dropped.
U_Sleep ==
    /\ u_pc = "sleep"
    /\ u_pc' = "call"
    /\ u_rx' = <<>>
    /\ data_str' = <<>>
    /\ temp' = <<>>
    /\ hum' = <<>>
    /\ posts' = <<>>
    /\ u_log' = <<>>
    /\ UNCHANGED data_bytes
    /\ UNCHANGED <<dvars, cvars, bvars>>

UplinkInit ==
    /\ u_pc = "call"
    /\ data_bytes = <<>>
    /\ u_rx = <<>>
    /\ data_str = <<>>
    /\ temp = <<>>
    /\ hum = <<>>
    /\ posts = <<>>
    /\ u_log = <<>>

---------------------------------------------------------------------------
(* Downlink: src/src/c/iot_informer/rpi_server_iot_informer.py *)

ValueStrings ==
    { <<49, 46, 48>>,          \* "1.0"
      <<48, 46, 48>>,          \* "0.0"
      <<49>>,                  \* "1"
      <<48, 49, 46, 53, 48>>,  \* "01.50"
      <<45, 49>>,              \* "-1"
      <<32, 49, 46, 48, 32>>,  \* " 1.0 "
      <<46, 53>>,              \* ".5"
      <<50, 46>>,              \* "2."
      <<>>,                    \* ""
      <<97>>,                  \* "a"
      <<49, 44, 48>>,          \* "1,0"
      <<49, 46, 48, 46>>,      \* "1.0."
      <<46>> }                 \* "."

Values == {Absent, Null} \cup { Str(s) : s \in ValueStrings }

Elements == [sensor_type : {BATHROOM_MAIN, ROOM_ENTRANCE}, value : Values]

DataLists == UNION { [1..n -> Elements] : n \in 0..MaxElems }

Responses ==
    { [http |-> o, data |-> <<>>] : o \in GetOutcomes \ {"ok"} }
        \cup { [http |-> "ok", data |-> d] : d \in DataLists }

NoResponse == [http |-> "none", data |-> <<>>]
None == [none |-> TRUE, f |-> Zero]
Some(f) == [none |-> FALSE, f |-> f]

\* get_latest_bathroom_status that takes the last entry of the array
get_latest_takes_last(resp) ==
    IF resp.http # "ok" THEN [ret |-> None, log |-> <<"Error fetching">>]
    ELSE IF resp.data = <<>> THEN [ret |-> None, log |-> <<>>]
    ELSE LET v == resp.data[Len(resp.data)].value IN
         IF v.kind # "str" THEN [ret |-> None, log |-> <<"Error fetching">>]
         ELSE LET p == ParseFloat(v.s) IN
              IF p.ok THEN [ret |-> Some(p.f), log |-> <<>>]
              ELSE [ret |-> None, log |-> <<"Error fetching">>]

\* get_latest_bathroom_status that answers 0.0 for an empty array
get_latest_empty_is_zero(resp) ==
    IF resp.http # "ok" THEN [ret |-> None, log |-> <<"Error fetching">>]
    ELSE IF resp.data = <<>> THEN [ret |-> Some(Zero), log |-> <<>>]
    ELSE LET v == resp.data[1].value IN
         IF v.kind # "str" THEN [ret |-> None, log |-> <<"Error fetching">>]
         ELSE LET p == ParseFloat(v.s) IN
              IF p.ok THEN [ret |-> Some(p.f), log |-> <<>>]
              ELSE [ret |-> None, log |-> <<"Error fetching">>]

\* get_latest_bathroom_status whose except clause returns 0.0 after a
\* failed request
get_latest_failure_is_zero(resp) ==
    IF resp.http # "ok" THEN [ret |-> Some(Zero), log |-> <<"Error fetching">>]
    ELSE IF resp.data = <<>> THEN [ret |-> None, log |-> <<>>]
    ELSE LET v == resp.data[1].value IN
         IF v.kind # "str" THEN [ret |-> None, log |-> <<"Error fetching">>]
         ELSE LET p == ParseFloat(v.s) IN
              IF p.ok THEN [ret |-> Some(p.f), log |-> <<>>]
              ELSE [ret |-> None, log |-> <<"Error fetching">>]

\* get_latest_bathroom_status that answers 0.0 for a value it cannot parse
get_latest_unparsed_is_zero(resp) ==
    IF resp.http # "ok" THEN [ret |-> None, log |-> <<"Error fetching">>]
    ELSE IF resp.data = <<>> THEN [ret |-> None, log |-> <<>>]
    ELSE LET v == resp.data[1].value IN
         IF v.kind # "str" THEN [ret |-> Some(Zero), log |-> <<"Error fetching">>]
         ELSE LET p == ParseFloat(v.s) IN
              IF p.ok THEN [ret |-> Some(p.f), log |-> <<>>]
              ELSE [ret |-> Some(Zero), log |-> <<"Error fetching">>]

\* get_latest_bathroom_status: the value returned and the line printed.
\* requests.get raises on timeout and connection failure, raise_for_status
\* on a non-2xx answer, r.json() on a body that is not JSON, data[0]["value"]
\* on a missing member, float() on null and on non-numeric text; all of
\* them end in the except clause.
get_latest_bathroom_status(resp) ==
    IF resp.http # "ok" THEN [ret |-> None, log |-> <<"Error fetching">>]
    ELSE IF resp.data = <<>> THEN [ret |-> None, log |-> <<>>]
    ELSE LET v == resp.data[1].value IN
         IF v.kind # "str" THEN [ret |-> None, log |-> <<"Error fetching">>]
         ELSE LET p == ParseFloat(v.s) IN
              IF p.ok THEN [ret |-> Some(p.f), log |-> <<>>]
              ELSE [ret |-> None, log |-> <<"Error fetching">>]

\* D_Get whose iteration without a value goes back to the GET at once
\* (`continue` in place of falling through to the sleep)
D_Get_Continues(R) ==
    /\ d_pc = "get"
    /\ \E resp \in R :
         LET r == get_latest_bathroom_status(resp) IN
         /\ d_resp' = resp
         /\ status' = r.ret
         /\ d_log' = d_log \o r.log
         /\ IF ~r.ret.none
            THEN /\ w_sensor_type' = BATHROOM_MAIN
                 /\ w_value' = r.ret.f
                 /\ d_pc' = "write"
            ELSE /\ UNCHANGED <<w_sensor_type, w_value>>
                 /\ d_pc' = "get"
    /\ UNCHANGED d_tx
    /\ UNCHANGED <<uvars, cvars, bvars>>

\* D_Get whose failed request is not caught and ends main
D_Get_Uncaught(R) ==
    /\ d_pc = "get"
    /\ \E resp \in R :
         LET r == get_latest_bathroom_status(resp) IN
         /\ d_resp' = resp
         /\ status' = r.ret
         /\ d_log' = d_log \o r.log
         /\ IF ~r.ret.none
            THEN /\ w_sensor_type' = BATHROOM_MAIN
                 /\ w_value' = r.ret.f
                 /\ d_pc' = "write"
            ELSE /\ UNCHANGED <<w_sensor_type, w_value>>
                 /\ d_pc' = IF resp.http = "ok" THEN "sleep" ELSE "terminated"
    /\ UNCHANGED d_tx
    /\ UNCHANGED <<uvars, cvars, bvars>>

\* main lines 161-163: the query, the test of its result and the call of
\* send_i2c_status with its two arguments
D_Get(R) ==
    /\ d_pc = "get"
    /\ \E resp \in R :
         LET r == get_latest_bathroom_status(resp) IN
         /\ d_resp' = resp
         /\ status' = r.ret
         /\ d_log' = d_log \o r.log
         /\ IF ~r.ret.none
            THEN /\ w_sensor_type' = BATHROOM_MAIN
                 /\ w_value' = r.ret.f
                 /\ d_pc' = "write"
            ELSE /\ UNCHANGED <<w_sensor_type, w_value>>
                 /\ d_pc' = "sleep"
    /\ UNCHANGED d_tx
    /\ UNCHANGED <<uvars, cvars, bvars>>

\* Message with the terminator left out of the f-string
Message_NoSentinel(sensor_type, value) ==
    sensor_type \o <<COMMA>> \o FloatStr(value)

\* send_i2c_status lines 90-91: the frame and its bytes
Message(sensor_type, value) ==
    sensor_type \o <<COMMA>> \o FloatStr(value) \o <<SENTINEL>>

\* Encode that writes the separator as ';'
Encode_Semicolon(sensor_type, value) ==
    LET message == Message(sensor_type, value)
    IN [i \in 1..Len(message) |->
           IF message[i] = COMMA THEN 59 ELSE Ord(<<message[i]>>)]

Encode(sensor_type, value) ==
    LET message == Message(sensor_type, value)
    IN [i \in 1..Len(message) |-> Ord(<<message[i]>>)]

\* WriteTx that pads the frame with zero bytes to a full block
WriteTx_Padded(ok, data) ==
    [bus |-> I2C_BUS, addr |-> I2C_ADDRESS, reg |-> 0, length |-> BLOCK_LEN,
     ok |-> ok,
     block |-> [i \in 1..BLOCK_LEN |-> IF i <= Len(data) THEN data[i] ELSE 0]]

WriteTx(ok, data) ==
    [bus |-> I2C_BUS, addr |-> I2C_ADDRESS, reg |-> 0, length |-> Len(data),
     ok |-> ok, block |-> data]

\* D_Write that writes once more after a failed write
D_Write_Retries ==
    /\ d_pc = "write"
    /\ \E ok \in BOOLEAN :
         /\ d_tx' = Append(d_tx, WriteTx(ok, Encode(w_sensor_type, w_value)))
         /\ d_log' = Append(d_log, IF ok THEN "Sent to I2C" ELSE "Error sending I2C data")
         /\ d_pc' = IF ok \/ Len(d_tx) >= 1 THEN "sleep" ELSE "write"
    /\ UNCHANGED <<d_resp, status, w_sensor_type, w_value>>
    /\ UNCHANGED <<uvars, cvars, bvars>>

\* D_Write that waits while a decode of the uplink is in progress (a lock
\* around the transactions of a frame)
D_Write_Locked ==
    /\ d_pc = "write"
    /\ ~(u_pc = "read" /\ u_rx # <<>>)
    /\ \E ok \in BOOLEAN :
         /\ d_tx' = Append(d_tx, WriteTx(ok, Encode(w_sensor_type, w_value)))
         /\ d_log' = Append(d_log, IF ok THEN "Sent to I2C" ELSE "Error sending I2C data")
    /\ d_pc' = "sleep"
    /\ UNCHANGED <<d_resp, status, w_sensor_type, w_value>>
    /\ UNCHANGED <<uvars, cvars, bvars>>

\* send_i2c_status: one write transaction, a failure is caught and printed
D_Write ==
    /\ d_pc = "write"
    /\ \E ok \in BOOLEAN :
         /\ d_tx' = Append(d_tx, WriteTx(ok, Encode(w_sensor_type, w_value)))
         /\ d_log' = Append(d_log, IF ok THEN "Sent to I2C" ELSE "Error sending I2C data")
    /\ d_pc' = "sleep"
    /\ UNCHANGED <<d_resp, status, w_sensor_type, w_value>>
    /\ UNCHANGED <<uvars, cvars, bvars>>

\* D_Sleep that empties an accumulator shared with the uplink
D_Sleep_ClearsAccumulator ==
    /\ d_pc = "sleep"
    /\ d_pc' = "get"
    /\ d_resp' = NoResponse
    /\ status' = None
    /\ w_sensor_type' = <<>>
    /\ w_value' = Zero
    /\ d_tx' = <<>>
    /\ d_log' = <<>>
    /\ data_bytes' = <<>>
    /\ UNCHANGED <<u_pc, u_rx, data_str, temp, hum, posts, u_log>>
    /\ UNCHANGED <<cvars, bvars>>

\* time.sleep(poll_interval), then the next turn of while True; the records
\* of the finished iteration are dropped
D_Sleep ==
    /\ d_pc = "sleep"
    /\ d_pc' = "get"
    /\ d_resp' = NoResponse
    /\ status' = None
    /\ w_sensor_type' = <<>>
    /\ w_value' = Zero
    /\ d_tx' = <<>>
    /\ d_log' = <<>>
    /\ UNCHANGED <<uvars, cvars, bvars>>

DownlinkInit ==
    /\ d_pc = "get"
    /\ d_resp = NoResponse
    /\ status = None
    /\ w_sensor_type = <<>>
    /\ w_value = Zero
    /\ d_tx = <<>>
    /\ d_log = <<>>

---------------------------------------------------------------------------
(* Backend: src/api/auth.py, src/api/routes/sensors.py, src/api/server.py *)

\* "k", the key of the .env file
KEY == <<107>>
\* "admin" and "pw", the administrator of the .env file
ADMIN == <<97, 100, 109, 105, 110>>
PW == <<112, 119>>

\* int(s): optional whitespace, optional sign, at least one digit;
\* ok = FALSE stands for ValueError
ParseInt(s) ==
    LET t    == RStrip(LStrip(s))
        sgn  == t # <<>> /\ Head(t) \in {43, 45}
        body == IF sgn THEN Tail(t) ELSE t
    IN IF body # <<>> /\ \A i \in 1..Len(body) : IsDigit(body[i])
       THEN [ok |-> TRUE,
             n |-> IF sgn /\ Head(t) = 45 THEN 0 - DigitsVal(body) ELSE DigitsVal(body)]
       ELSE [ok |-> FALSE, n |-> 0]

\* request.args.get(name, default, type=int): the default when the
\* parameter is missing or is not an integer
ArgInt(v, default) ==
    IF v.kind # "str" THEN default
    ELSE LET p == ParseInt(v.s) IN IF p.ok THEN p.n ELSE default

\* secrets.compare_digest on two str: TypeError when either holds a
\* character outside ASCII
IsAscii(s) == \A i \in 1..Len(s) : s[i] < 128
compare_digest(a, b) == [err |-> ~(IsAscii(a) /\ IsAscii(b)), eq |-> (a = b)]

NoAuth == [present |-> FALSE, username |-> <<>>, password |-> <<>>]
Basic(u, p) == [present |-> TRUE, username |-> u, password |-> p]

Request(path, key, auth, sensor_type, value, limit) ==
    [path |-> path, x_api_key |-> key, authorization |-> auth,
     sensor_type |-> sensor_type, value |-> value, limit |-> limit]

\* the credentials a request carries: X-API-Key header and Authorization
Credentials ==
    { <<k, NoAuth>> : k \in {Absent, Str(<<>>), Str(KEY), Str(<<120>>), Str(<<233>>)} }
        \cup { <<Absent, b>> : b \in {Basic(<<>>, <<>>), Basic(ADMIN, PW),
                                      Basic(ADMIN, <<120>>), Basic(<<233>>, PW)} }
        \cup { <<Str(<<120>>), Basic(ADMIN, PW)>> }

SensorTypeParams == {Absent, Str(<<>>), Str(BATHROOM_MAIN), Str(ROOM_ENTRANCE)}
ValueParams == {Absent, Str(<<>>), Str(<<49, 46, 48>>), Str(<<48, 46, 48>>)}
\* missing, "0", "1", "2", "-1", "x"
LimitParams == {Absent, Str(<<48>>), Str(<<49>>), Str(<<50>>), Str(<<45, 49>>), Str(<<120>>)}

\* the credentials under which every parameter combination is tried
FewCredentials == { <<Str(KEY), NoAuth>>, <<Absent, Basic(ADMIN, PW)>>, <<Absent, NoAuth>> }

\* every credential for each path, every parameter for a few credentials
Requests ==
    { Request(p, c[1], c[2], Absent, Absent, Absent) :
          p \in {"/", "/sensors/data"}, c \in Credentials }
        \cup { Request("/sensors/add", c[1], c[2], Str(BATHROOM_MAIN),
                       Str(<<49, 46, 48>>), Absent) : c \in Credentials }
        \cup { Request("/sensors/get", c[1], c[2], Str(BATHROOM_MAIN), Absent,
                       Absent) : c \in Credentials }
        \cup { Request("/sensors/add", c[1], c[2], st, v, Absent) :
                  c \in FewCredentials, st \in SensorTypeParams, v \in ValueParams }
        \cup { Request("/sensors/get", c[1], c[2], st, Absent, n) :
                  c \in FewCredentials, st \in SensorTypeParams, n \in LimitParams }

\* server.py line 86
exempt_paths == {"/"}

\* _global_auth: "pass" (returns None), "reject" (_unauthorized_response)
\* or "error" (TypeError out of compare_digest, answered 500).  `and`
\* evaluates its operands left to right and stops at the first false one.
global_auth(req) ==
    IF req.path \in exempt_paths THEN "pass"
    ELSE LET x_api == req.x_api_key
             auth  == req.authorization
             kc == compare_digest(x_api.s, API_KEY.s)
             uc == compare_digest(OrEmpty(Str(auth.username)), OrEmpty(ADMIN_USER))
             pc == compare_digest(OrEmpty(Str(auth.password)), OrEmpty(ADMIN_PASSWORD))
         IN IF Truthy(x_api) /\ Truthy(API_KEY) /\ kc.err THEN "error"
            ELSE IF Truthy(x_api) /\ Truthy(API_KEY) /\ kc.eq THEN "pass"
            ELSE IF ~auth.present THEN "reject"
            ELSE IF uc.err THEN "error"
            ELSE IF ~uc.eq THEN "reject"
            ELSE IF pc.err THEN "error"
            ELSE IF pc.eq THEN "pass"
            ELSE "reject"

Answer(code, handled, db, kind, rows) ==
    [status |-> code, handled |-> handled, db |-> db, kind |-> kind,
     rows |-> rows]

Unauthorized == Answer(401, FALSE, "none", "unauthorized", <<>>)
ServerError == Answer(500, FALSE, "none", "server_error", <<>>)

\* Insert that keeps the first reading of a sensor type (INSERT OR IGNORE
\* under a unique sensor_type)
Insert_KeepsFirst(rows, sensor_type, value) ==
    IF \E i \in 1..Len(rows) : rows[i].sensor_type = sensor_type
    THEN rows
    ELSE Append(rows, [id |-> Len(rows) + 1, sensor_type |-> sensor_type,
                       value |-> value])

\* INSERT INTO sensor_data: AUTOINCREMENT gives an id above every id used
\* so far; the timestamp column is not modelled
Insert(rows, sensor_type, value) ==
    Append(rows, [id |-> Len(rows) + 1, sensor_type |-> sensor_type,
                  value |-> value])

\* OrderByIdDesc that sorts oldest first (ORDER BY id ASC)
RECURSIVE OrderByIdDesc_Ascending(_)
OrderByIdDesc_Ascending(rowset) ==
    IF rowset = {} THEN <<>>
    ELSE LET m == CHOOSE r \in rowset : \A q \in rowset : q.id >= r.id
         IN <<m>> \o OrderByIdDesc_Ascending(rowset \ {m})

RECURSIVE OrderByIdDesc(_)
OrderByIdDesc(rowset) ==
    IF rowset = {} THEN <<>>
    ELSE LET m == CHOOSE r \in rowset : \A q \in rowset : q.id <= r.id
         IN <<m>> \o OrderByIdDesc(rowset \ {m})

\* LIMIT n: a negative n is no limit
Limit(rows, n) ==
    IF n < 0 \/ n >= Len(rows) THEN rows ELSE SubSeq(rows, 1, n)

Range(f) == { f[i] : i \in DOMAIN f }

\* SELECT ... WHERE sensor_type = ? ORDER BY id DESC LIMIT ?
SelectByType(rows, sensor_type, n) ==
    Limit(OrderByIdDesc({ r \in Range(rows) : r.sensor_type = sensor_type }), n)

\* SELECT ... ORDER BY id DESC LIMIT 50
SelectLatest(rows) == Limit(OrderByIdDesc(Range(rows)), 50)

AsDicts(rows) ==
    [i \in 1..Len(rows) |->
        [sensor_type |-> rows[i].sensor_type, value |-> Str(rows[i].value)]]

\* the four route handlers: the answer and the table afterwards
index(req) ==
    [resp |-> Answer(200, TRUE, "none", "page", <<>>), store |-> sensor_data]

get_data(req) ==
    [resp |-> Answer(200, TRUE, "read", "rows", AsDicts(SelectLatest(sensor_data))),
     store |-> sensor_data]

\* add that refuses a request without sensor_type or value with HTTP 400
add_RejectsEmpty(req) ==
    IF Truthy(req.sensor_type) /\ Truthy(req.value)
    THEN [resp |-> Answer(200, TRUE, "write", "ok", <<>>),
          store |-> Insert(sensor_data, req.sensor_type.s, req.value.s)]
    ELSE [resp |-> Answer(400, TRUE, "none", "error", <<>>), store |-> sensor_data]

add(req) ==
    IF Truthy(req.sensor_type) /\ Truthy(req.value)
    THEN [resp |-> Answer(200, TRUE, "write", "ok", <<>>),
          store |-> Insert(sensor_data, req.sensor_type.s, req.value.s)]
    ELSE [resp |-> Answer(200, TRUE, "none", "ok", <<>>), store |-> sensor_data]

\* get without the check of sensor_type: the query runs with the empty type
get_NoCheck(req) ==
    LET limit == ArgInt(req.limit, 10) IN
    [resp |-> Answer(200, TRUE, "read", "rows",
                     AsDicts(SelectByType(sensor_data, OrEmpty(req.sensor_type), limit))),
     store |-> sensor_data]

get(req) ==
    LET limit == ArgInt(req.limit, 10) IN
    IF ~Truthy(req.sensor_type)
    THEN [resp |-> Answer(400, TRUE, "none", "error", <<>>), store |-> sensor_data]
    ELSE [resp |-> Answer(200, TRUE, "read", "rows",
                          AsDicts(SelectByType(sensor_data, req.sensor_type.s, limit))),
          store |-> sensor_data]

\* the server's side of one request: the before_request hook, then the
\* route handler
Serve(req, out) ==
    LET a == global_auth(req) IN
    /\ a = "pass" => Len(out.store) <= MaxRows
    /\ b_req' = req
    /\ IF a = "pass"
       THEN /\ b_resp' = out.resp
            /\ sensor_data' = out.store
       ELSE /\ b_resp' = (IF a = "reject" THEN Unauthorized ELSE ServerError)
            /\ UNCHANGED sensor_data

\* one request of a client that is not one of the bridges
Handle(req, out) ==
    /\ Serve(req, out)
    /\ UNCHANGED <<uvars, dvars, cvars>>

B_Index(R) == \E req \in R : req.path = "/" /\ Handle(req, index(req))
B_Data(R) == \E req \in R : req.path = "/sensors/data" /\ Handle(req, get_data(req))
B_Add(R) == \E req \in R : req.path = "/sensors/add" /\ Handle(req, add(req))
B_Get(R) == \E req \in R : req.path = "/sensors/get" /\ Handle(req, get(req))

---------------------------------------------------------------------------
(* The uplink's POSTs answered by the backend on localhost:5000 *)

\* the characters of the two sensor types of the uplink
TEMPERATURE_MSA_ROOM ==
    <<116, 101, 109, 112, 101, 114, 97, 116, 117,
      114, 101, 95, 109, 115, 97, 95, 114, 111, 111, 109>>
HUMIDITY_MSA_ROOM ==
    <<104, 117, 109, 105, 100, 105, 116, 121, 95,
      109, 115, 97, 95, 114, 111, 111, 109>>
Text(sensor_type) ==
    IF sensor_type = "temperature_msa_room" THEN TEMPERATURE_MSA_ROOM
    ELSE HUMIDITY_MSA_ROOM

\* the request requests.post builds: the form fields sensor_type and value,
\* and the X-API-Key header unless its value is None
PostRequest(sensor_type, value) ==
    Request("/sensors/add", API_KEY, NoAuth, Str(Text(sensor_type)), Str(value),
            Absent)

\* send_to_server against the backend: the request is lost on the way
\* (timeout, connection refused) or answered; raise_for_status turns every
\* answer of 400 and above into a RequestException
send_via_backend(sensor_type, value) ==
    \/ /\ \E outcome \in {"timeout", "refused"} :
             send_to_server(sensor_type, value, outcome)
       /\ UNCHANGED bvars
    \/ /\ Serve(PostRequest(sensor_type, value), add(PostRequest(sensor_type, value)))
       /\ send_to_server(sensor_type, value,
                         IF b_resp'.status < 400 THEN "ok" ELSE "non2xx")

S_SendTemp ==
    /\ u_pc = "send_temp"
    /\ send_via_backend("temperature_msa_room", temp)
    /\ u_pc' = "send_hum"
    /\ UNCHANGED <<data_bytes, u_rx, data_str, temp, hum>>
    /\ UNCHANGED <<dvars, cvars>>

S_SendHum ==
    /\ u_pc = "send_hum"
    /\ send_via_backend("humidity_msa_room", hum)
    /\ u_pc' = "sleep"
    /\ UNCHANGED <<data_bytes, u_rx, data_str, temp, hum>>
    /\ UNCHANGED <<dvars, cvars>>

---------------------------------------------------------------------------
(* Specifications *)

\* config.py: os.getenv answers None for a variable that is not set
ConfigInit ==
    /\ API_KEY \in {Absent, Str(KEY)}
    /\ ADMIN_USER \in {Absent, Str(ADMIN)}
    /\ ADMIN_PASSWORD = IF ADMIN_USER = Absent THEN Absent ELSE Str(PW)

\* the bridge processes read API_KEY only
BridgeConfigInit ==
    /\ API_KEY \in {Absent, Str(KEY)}
    /\ ADMIN_USER = Absent
    /\ ADMIN_PASSWORD = Absent

NoRequest == Request("none", Absent, NoAuth, Absent, Absent, Absent)
NoAnswer == Answer(0, FALSE, "none", "none", <<>>)

BackendIdle ==
    /\ sensor_data = <<>>
    /\ b_req = NoRequest
    /\ b_resp = NoAnswer

Init == BridgeConfigInit /\ UplinkInit /\ DownlinkInit /\ BackendIdle

\* the uplink process alone
UplinkNext ==
    \/ U_Call
    \/ U_Read(Blocks)
    \/ U_Parse
    \/ U_SendTemp
    \/ U_SendHum
    \/ U_Sleep

UplinkSpec == Init /\ [][UplinkNext]_vars

\* the downlink process alone
DownlinkNext ==
    \/ D_Get(Responses)
    \/ D_Write
    \/ D_Sleep

DownlinkSpec == Init /\ [][DownlinkNext]_vars

\* the backend alone, answering any sequence of requests
BackendInit == ConfigInit /\ UplinkInit /\ DownlinkInit /\ BackendIdle

BackendNext ==
    \/ B_Index(Requests)
    \/ B_Data(Requests)
    \/ B_Add(Requests)
    \/ B_Get(Requests)

BackendSpec == BackendInit /\ [][BackendNext]_vars

\* both processes side by side, every interleaving of their steps, over
\* fewer blocks and responses
FewBlocks == { MakeBlock(k, s) : k \in {0, 9}, s \in BlockPayloads }

FewResponses ==
    { [http |-> o, data |-> <<>>] : o \in GetOutcomes \ {"ok"} }
        \cup { [http |-> "ok", data |-> <<>>] }
        \cup { [http |-> "ok",
                data |-> <<[sensor_type |-> BATHROOM_MAIN, value |-> v]>>] :
                  v \in {Str(<<49, 46, 48>>), Str(<<48>>), Str(<<97>>), Absent} }

Next ==
    \/ U_Call
    \/ U_Read(FewBlocks)
    \/ U_Parse
    \/ U_SendTemp
    \/ U_SendHum
    \/ U_Sleep
    \/ D_Get(FewResponses)
    \/ D_Write
    \/ D_Sleep

Spec == Init /\ [][Next]_vars

\* the uplink and the backend together: frames ",2#", "1,2#", "1,#", ",#"
\* and "#", and adds of another client with the key
SystemBlocks ==
    { MakeBlock(0, <<COMMA, 50, SENTINEL>>), MakeBlock(1, <<COMMA, 50, SENTINEL>>),
      MakeBlock(1, <<COMMA, SENTINEL>>), MakeBlock(0, <<COMMA, SENTINEL>>),
      MakeBlock(0, <<SENTINEL>>) }

SystemAdds ==
    { Request("/sensors/add", Str(KEY), NoAuth, st, v, Absent) :
          st \in {Absent, Str(<<>>), Str(BATHROOM_MAIN)},
          v \in {Absent, Str(<<>>), Str(<<49, 46, 48>>)} }

SystemNext ==
    \/ U_Call
    \/ U_Read(SystemBlocks)
    \/ U_Parse
    \/ S_SendTemp
    \/ S_SendHum
    \/ U_Sleep
    \/ B_Add(SystemAdds)

SystemSpec == Init /\ [][SystemNext]_vars

\* send_i2c_status alone, applied to arguments other than those of main
SensorTypes == { BATHROOM_MAIN, ROOM_ENTRANCE, <<116>>, <<>> }

EncodeValues ==
    { Float(FALSE, 1, <<>>), Float(FALSE, 0, <<>>), Float(FALSE, 1, <<53>>),
      Float(TRUE, 1, <<>>), Float(FALSE, 0, <<53>>), Float(FALSE, 2, <<>>),
      Float(FALSE, 10, <<>>), Float(FALSE, 0, <<48, 53>>), Float(TRUE, 0, <<>>) }

EncodeInit ==
    /\ BridgeConfigInit
    /\ BackendIdle
    /\ UplinkInit
    /\ d_pc = "write"
    /\ d_resp = NoResponse
    /\ w_sensor_type \in SensorTypes
    /\ w_value \in EncodeValues
    /\ status = Some(w_value)
    /\ d_tx = <<>>
    /\ d_log = <<>>

EncodeNext ==
    \/ D_Write
    \/ D_Sleep

EncodeSpec == EncodeInit /\ [][EncodeNext]_vars

\* the frame written by send_i2c_status read back by read_i2c_string_block:
\* the peer hands the frame out in blocks of 20 bytes and fills the last
\* block with a byte of its own
LoopSensorTypes ==
    { BATHROOM_MAIN, TEMPERATURE_MSA_ROOM, <<116>>, <<>>,
      <<97, COMMA, 98>>, <<97, SENTINEL>> }

PadBytes == {0, 49, 255, COMMA, SENTINEL}

Chunk(frame, n, pad) ==
    [j \in 1..BLOCK_LEN |->
        IF (n - 1) * BLOCK_LEN + j <= Len(frame)
        THEN frame[(n - 1) * BLOCK_LEN + j]
        ELSE pad]

L_Read ==
    /\ d_tx # <<>>
    /\ d_tx[1].ok
    /\ \E pad \in PadBytes :
          U_Read({ Chunk(d_tx[1].block, Len(u_rx) + 1, pad) })

LoopInit ==
    /\ BridgeConfigInit
    /\ BackendIdle
    /\ UplinkInit
    /\ d_pc = "write"
    /\ d_resp = NoResponse
    /\ w_sensor_type \in LoopSensorTypes
    /\ w_value \in EncodeValues
    /\ status = Some(w_value)
    /\ d_tx = <<>>
    /\ d_log = <<>>

LoopNext ==
    \/ D_Write
    \/ U_Call
    \/ L_Read
    \/ U_Parse

LoopSpec == LoopInit /\ [][LoopNext]_vars

---------------------------------------------------------------------------
(* Properties *)

\* every byte the bus delivered to the running decode, in arrival order
RxBytes == Join([i \in 1..Len(u_rx) |-> u_rx[i].block])

FirstIndex(s, ch) ==
    CHOOSE i \in 1..Len(s) : s[i] = ch /\ \A j \in 1..(i - 1) : s[j] # ch

Count(s, ch) == Cardinality({ i \in 1..Len(s) : s[i] = ch })

\* read_i2c_string_block has returned a string in the running iteration
FrameDecoded ==
    \/ u_pc \in {"parse", "send_temp", "send_hum"}
    \/ u_pc = "sleep" /\ u_rx # <<>> /\ u_rx[Len(u_rx)].ok

\* what Python prints for float(s), for the numeric strings of ValueStrings
NumericText ==
    <<49, 46, 48>> :> <<49, 46, 48>>                   \* "1.0"   -> "1.0"
    @@ <<48, 46, 48>> :> <<48, 46, 48>>                \* "0.0"   -> "0.0"
    @@ <<49>> :> <<49, 46, 48>>                        \* "1"     -> "1.0"
    @@ <<48, 49, 46, 53, 48>> :> <<49, 46, 53>>        \* "01.50" -> "1.5"
    @@ <<45, 49>> :> <<45, 49, 46, 48>>                \* "-1"    -> "-1.0"
    @@ <<32, 49, 46, 48, 32>> :> <<49, 46, 48>>        \* " 1.0 " -> "1.0"
    @@ <<46, 53>> :> <<48, 46, 53>>                    \* ".5"    -> "0.5"
    @@ <<50, 46>> :> <<50, 46, 48>>                    \* "2."    -> "2.0"

\* what Python prints for the floats of EncodeValues
FloatText ==
    Float(FALSE, 1, <<>>) :> <<49, 46, 48>>            \* 1.0
    @@ Float(FALSE, 0, <<>>) :> <<48, 46, 48>>         \* 0.0
    @@ Float(FALSE, 1, <<53>>) :> <<49, 46, 53>>       \* 1.5
    @@ Float(TRUE, 1, <<>>) :> <<45, 49, 46, 48>>      \* -1.0
    @@ Float(FALSE, 0, <<53>>) :> <<48, 46, 53>>       \* 0.5
    @@ Float(FALSE, 2, <<>>) :> <<50, 46, 48>>         \* 2.0
    @@ Float(FALSE, 10, <<>>) :> <<49, 48, 46, 48>>    \* 10.0
    @@ Float(FALSE, 0, <<48, 53>>) :> <<48, 46, 48, 53>>  \* 0.05
    @@ Float(TRUE, 0, <<>>) :> <<45, 48, 46, 48>>      \* -0.0

\* "bathroom_main,1.0#"
BathroomOneFrame ==
    <<98, 97, 116, 104, 114, 111, 111, 109, 95, 109, 97, 105, 110,
      44, 49, 46, 48, 35>>

FirstValue == d_resp.data[1].value

FirstIsNumeric ==
    /\ d_resp.http = "ok"
    /\ d_resp.data # <<>>
    /\ FirstValue.kind = "str"
    /\ FirstValue.s \in DOMAIN NumericText

\* C1: whenever read_i2c_string_block has returned, the bus has delivered a
\* '#', the returned string is exactly the delivered bytes that precede the
\* first '#', in arrival order over all blocks read, and it holds no '#';
\* and the decode is never still reading after a '#' was delivered.
C1_DecodeBeforeSentinel ==
    /\ FrameDecoded =>
          /\ Contains(RxBytes, SENTINEL)
          /\ data_str = SubSeq(RxBytes, 1, FirstIndex(RxBytes, SENTINEL) - 1)
          /\ ~Contains(data_str, SENTINEL)
    /\ u_pc = "read" => ~Contains(RxBytes, SENTINEL)

\* a decode that returned on a '#' in the middle of its second block
C1_Witness ==
    /\ u_pc = "parse"
    /\ Len(u_rx) = 2
    /\ Len(data_str) > BLOCK_LEN + 1
    /\ Len(data_str) < 2 * BLOCK_LEN - 2
    /\ Contains(data_str, COMMA)

\* C2: a decode that has read MaxBlockReads blocks without meeting a '#'
\* has failed (FramingError): the uplink is not waiting for a further block.
C2_FramingBound ==
    (u_pc = "read") => Len(u_rx) < MaxBlockReads

\* C3: an iteration whose decoded string has exactly one comma ends with
\* exactly two POST attempts, the two fields in order; after the first
\* attempt, whatever its outcome, the loop stands at the second send.
C3_TwoPosts ==
    /\ (u_pc = "sleep" /\ FrameDecoded /\ Count(data_str, COMMA) = 1) =>
          /\ Len(posts) = 2
          /\ posts[1].value = SubSeq(data_str, 1, FirstIndex(data_str, COMMA) - 1)
          /\ posts[2].value =
                SubSeq(data_str, FirstIndex(data_str, COMMA) + 1, Len(data_str))
    /\ (Len(posts) = 1) => u_pc = "send_hum"
    /\ Len(posts) <= 2

\* both POSTs were attempted although the first one timed out
C3_Witness ==
    /\ u_pc = "sleep"
    /\ Len(posts) = 2
    /\ posts[1].outcome = "timeout"
    /\ posts[2].outcome = "ok"

\* C4: an iteration whose GET answered a non-empty array with a numeric
\* first value ends with exactly one bus write, of the frame
\* "bathroom_main,<float(value)>#"; "1.0" gives "bathroom_main,1.0#".
C4_FrameFromFirstValue ==
    (d_pc = "sleep" /\ FirstIsNumeric) =>
        /\ Len(d_tx) = 1
        /\ d_tx[1].block =
              BATHROOM_MAIN \o <<COMMA>> \o NumericText[FirstValue.s] \o <<SENTINEL>>
        /\ (FirstValue.s = <<49, 46, 48>>) => d_tx[1].block = BathroomOneFrame

\* the frame for "1.0" was written although the entry names another sensor
\* and a second entry holds another value
C4_Witness ==
    /\ d_pc = "sleep"
    /\ d_resp.http = "ok"
    /\ Len(d_resp.data) = 2
    /\ d_resp.data[1].sensor_type = ROOM_ENTRANCE
    /\ d_resp.data[1].value = Str(<<49, 46, 48>>)
    /\ d_resp.data[2].value = Str(<<48, 46, 48>>)
    /\ Len(d_tx) = 1
    /\ d_tx[1].block = BathroomOneFrame

\* C5: after a GET that answered the empty array the iteration issues no
\* bus write and stands at its sleep.
C5_EmptyNoWrite ==
    (d_resp.http = "ok" /\ d_resp.data = <<>>) =>
        (d_tx = <<>> /\ d_pc = "sleep")

C5_Witness ==
    /\ d_pc = "sleep"
    /\ d_resp.http = "ok"
    /\ d_resp.data = <<>>
    /\ d_log = <<>>

\* C6: after a GET that timed out, was refused or answered non-2xx the
\* iteration issues no bus write, prints the failure and stands at its sleep.
C6_QueryFailureNoWrite ==
    (d_resp.http \in {"timeout", "refused", "non2xx"}) =>
        /\ d_tx = <<>>
        /\ d_pc = "sleep"
        /\ d_log = <<"Error fetching">>

C6_Witness ==
    /\ d_pc = "sleep"
    /\ d_resp.http = "non2xx"
    /\ d_tx = <<>>

\* C7: after a GET whose first entry has no value member, a null value or
\* non-numeric text, the iteration ends as after a failed query: no bus
\* write, the failure printed, the loop at its sleep.
C7_ParseFailureNoWrite ==
    (d_resp.http = "ok" /\ d_resp.data # <<>> /\ ~FirstIsNumeric) =>
        /\ d_tx = <<>>
        /\ d_pc = "sleep"
        /\ d_log = <<"Error fetching">>

C7_Witness ==
    /\ d_pc = "sleep"
    /\ d_resp.http = "ok"
    /\ d_resp.data # <<>>
    /\ FirstValue = Str(<<97>>)
    /\ d_tx = <<>>

\* C8: an iteration whose decoded string holds at least one comma ends with
\* two POSTs: the text before the first comma and the text after it.
C8_SplitOnFirstComma ==
    (u_pc = "sleep" /\ Contains(data_str, COMMA)) =>
        /\ Len(posts) = 2
        /\ posts[1].value = SubSeq(data_str, 1, FirstIndex(data_str, COMMA) - 1)
        /\ posts[2].value =
              SubSeq(data_str, FirstIndex(data_str, COMMA) + 1, Len(data_str))

\* C9: once a decoded string without a comma has been examined, the
\* iteration has issued no POST, has printed the string as invalid and
\* stands at its sleep.
C9_NoCommaDropped ==
    (FrameDecoded /\ u_pc # "parse" /\ ~Contains(data_str, COMMA)) =>
        /\ posts = <<>>
        /\ u_pc = "sleep"
        /\ u_log = <<"Invalid I2C data">>

\* the empty string decoded from a '#' in first position was dropped
C9_Witness ==
    /\ u_pc = "sleep"
    /\ FrameDecoded
    /\ Len(u_rx) = 1
    /\ data_str = <<>>
    /\ posts = <<>>

\* C10: the bytes handed to the bus write are sensor_type, one comma, the
\* text of the value and one '#', which is the last byte and the only '#'
\* at the end; ("bathroom_main", 1.0) gives "bathroom_main,1.0#".
C10_EncodeBytes ==
    \A k \in 1..Len(d_tx) :
        LET b == d_tx[k].block IN
        /\ b = w_sensor_type \o <<COMMA>> \o FloatText[w_value] \o <<SENTINEL>>
        /\ b[Len(b)] = SENTINEL
        /\ b[Len(b) - 1] # SENTINEL
        /\ (w_sensor_type = BATHROOM_MAIN /\ w_value = Float(FALSE, 1, <<>>)) =>
              b = BathroomOneFrame

C10_Witness ==
    /\ d_pc = "sleep"
    /\ w_sensor_type = ROOM_ENTRANCE
    /\ w_value = Float(FALSE, 0, <<48, 53>>)
    /\ Len(d_tx) = 1
    /\ d_tx[1].block[Len(d_tx[1].block)] = SENTINEL

\* the failed reads and writes of the running iterations
FailedReads == { i \in 1..Len(u_rx) : ~u_rx[i].ok }
FailedWrites == { i \in 1..Len(d_tx) : ~d_tx[i].ok }

\* C11: when a block read of the running decode has failed, it is the last
\* bus transaction of the iteration (no retry), no POST has been issued,
\* the bytes accumulated before it went nowhere, the error is printed and
\* the loop stands at its sleep.
C11_ReadFailureSkips ==
    (FailedReads # {}) =>
        /\ FailedReads = {Len(u_rx)}
        /\ posts = <<>>
        /\ data_str = <<>>
        /\ u_log = <<"Error reading I2C">>
        /\ u_pc = "sleep"

\* the second block read failed after a first block without '#'
C11_Witness ==
    /\ u_pc = "sleep"
    /\ Len(u_rx) = 2
    /\ u_rx[1].ok
    /\ ~u_rx[2].ok
    /\ Len(data_bytes) = BLOCK_LEN
    /\ posts = <<>>

\* C12: when the bus write has failed, it is the only write of the
\* iteration (no retry), the error is printed and the loop stands at its
\* sleep, from where its next step is the next GET.
C12_WriteFailureContained ==
    (FailedWrites # {}) =>
        /\ Len(d_tx) = 1
        /\ d_log = <<"Error sending I2C data">>
        /\ d_pc = "sleep"
        /\ ENABLED D_Sleep

C12_Witness ==
    /\ d_pc = "sleep"
    /\ Len(d_tx) = 1
    /\ ~d_tx[1].ok
    /\ d_tx[1].block = BathroomOneFrame

\* the reads of the running iteration that delivered a '#'
SentinelReads == { i \in 1..Len(u_rx) : u_rx[i].ok /\ Contains(u_rx[i].block, SENTINEL) }

\* the sensor type under which field k of a frame is forwarded
FieldType(k) == IF k = 1 THEN "temperature_msa_room" ELSE "humidity_msa_room"

\* C13: the POSTs of an iteration are, in order, field 1 and field 2 of the
\* one frame decoded in that iteration, each at most once whatever the
\* outcome of the POST; nothing is kept for a later iteration (the next
\* iteration starts with no POST and no field).
C13_AtMostOnce ==
    /\ Len(posts) <= 2
    /\ \A k \in 1..Len(posts) :
          /\ posts[k].sensor_type = FieldType(k)
          /\ posts[k].value = Split(data_str, COMMA)[k]
    /\ posts # <<>> => Cardinality(SentinelReads) = 1
    /\ u_pc = "call" => posts = <<>> /\ temp = <<>> /\ hum = <<>>

\* both POSTs of an iteration failed and the iteration is over
C13_Witness ==
    /\ u_pc = "sleep"
    /\ Len(posts) = 2
    /\ posts[1].outcome = "refused"
    /\ posts[2].outcome = "non2xx"

\* C20: the split and the POSTs of an iteration happen only after a read of
\* that iteration has delivered a '#', and that read is the last one.
C20_SentinelFirst ==
    (u_pc \in {"parse", "send_temp", "send_hum"} \/ posts # <<>>
        \/ temp # <<>> \/ hum # <<>>) =>
            SentinelReads = {Len(u_rx)}

\* a frame forwarded after a first block that carried no '#'
C20_Witness ==
    /\ posts # <<>>
    /\ Len(u_rx) = 2
    /\ ~Contains(u_rx[1].block, SENTINEL)
    /\ Contains(u_rx[2].block, SENTINEL)

\* C14: while no API key is configured, neither bridge has left its
\* startup: no bus transaction and no HTTP request has been issued and
\* neither loop has been entered.
C14_AbortWithoutKey ==
    (API_KEY = Absent) =>
        /\ u_pc = "call" /\ u_rx = <<>> /\ posts = <<>>
        /\ d_pc = "get" /\ d_resp = NoResponse /\ d_tx = <<>>

\* the positions of the two while True loops
UplinkPositions == {"call", "read", "parse", "send_temp", "send_hum", "sleep"}
DownlinkPositions == {"get", "write", "sleep"}

\* C15: both loops stay inside their loop bodies whatever failed: each is
\* at one of its loop positions, the sleep that ends an iteration always
\* leads into the next one, and every position other than a decode in
\* progress has a next step.
C15_NeverTerminates ==
    /\ u_pc \in UplinkPositions
    /\ d_pc \in DownlinkPositions
    /\ u_pc = "sleep" => ENABLED U_Sleep
    /\ d_pc = "sleep" => ENABLED D_Sleep
    /\ u_pc # "read" => ENABLED (U_Call \/ U_Parse \/ U_SendTemp \/ U_SendHum \/ U_Sleep)
    /\ ENABLED (D_Get(FewResponses) \/ D_Write \/ D_Sleep)

\* an uplink iteration that ended in the except clause next to a downlink
\* iteration whose GET timed out, both about to start their next iteration
C15_Witness ==
    /\ u_pc = "sleep"
    /\ u_log = <<"Error reading I2C">>
    /\ d_pc = "sleep"
    /\ d_resp.http = "timeout"
    /\ ENABLED U_Sleep
    /\ ENABLED D_Sleep

\* all bus transactions of the two running iterations
BusTransactions ==
    { u_rx[i] : i \in 1..Len(u_rx) } \cup { d_tx[i] : i \in 1..Len(d_tx) }

LastIsGet == b_req.path = "/sensors/get"

\* positions in the table, in insertion order, of the readings of type t
Stored(t) == { i \in 1..Len(sensor_data) : sensor_data[i].sensor_type = t }

\* the position of the j-th newest reading of type t
Newest(t, j) ==
    CHOOSE i \in Stored(t) : Cardinality({ q \in Stored(t) : q > i }) = j - 1

Min(a, b) == IF a <= b THEN a ELSE b

\* C16: an answered GET /sensors/get for type t with limit n >= 0 (10 when
\* the parameter is missing or not an integer) carries min(n, k) readings,
\* k being the number of stored readings of type t: the j-th of them is the
\* j-th most recently added reading of type t, so all are of type t, newest
\* first, and there is none when k = 0.  The table is left as it was.
C16_NewestFirstOfType ==
    (LastIsGet /\ b_resp.handled /\ Truthy(b_req.sensor_type)
        /\ ArgInt(b_req.limit, 10) >= 0) =>
        LET t == b_req.sensor_type.s
            n == ArgInt(b_req.limit, 10)
            k == Cardinality(Stored(t))
        IN /\ b_resp.status = 200
           /\ Len(b_resp.rows) = Min(n, k)
           /\ \A j \in 1..Len(b_resp.rows) :
                 /\ b_resp.rows[j].sensor_type = t
                 /\ b_resp.rows[j].value = Str(sensor_data[Newest(t, j)].value)

\* limit 1 over two stored readings of the type with different values
C16_Witness ==
    /\ LastIsGet /\ b_resp.handled
    /\ b_req.sensor_type = Str(BATHROOM_MAIN)
    /\ b_req.limit = Str(<<49>>)
    /\ Len(sensor_data) = 2
    /\ Stored(BATHROOM_MAIN) = {1, 2}
    /\ sensor_data[1].value # sensor_data[2].value
    /\ Len(b_resp.rows) = 1

\* C17: a GET /sensors/get whose sensor_type is missing or empty never
\* carries readings and never touches the table; when it reaches the
\* handler the answer is HTTP 400 with the error body.
C17_MissingTypeIs400 ==
    (LastIsGet /\ ~Truthy(b_req.sensor_type)) =>
        /\ b_resp.rows = <<>>
        /\ b_resp.db = "none"
        /\ b_resp.status # 200
        /\ b_resp.handled => b_resp.status = 400 /\ b_resp.kind = "error"

\* an authenticated GET with an empty sensor_type over a non-empty table
C17_Witness ==
    /\ LastIsGet /\ b_resp.handled
    /\ b_req.sensor_type = Str(<<>>)
    /\ sensor_data # <<>>
    /\ b_resp.status = 400

\* the credentials of the last request are those of the configuration
ValidKey == API_KEY.kind = "str" /\ b_req.x_api_key = API_KEY
ValidBasic ==
    /\ b_req.authorization.present
    /\ ADMIN_USER.kind = "str" /\ ADMIN_PASSWORD.kind = "str"
    /\ b_req.authorization.username = ADMIN_USER.s
    /\ b_req.authorization.password = ADMIN_PASSWORD.s

\* C18: a request to a path other than "/" that carries neither the
\* configured API key nor the configured administrator's credentials is
\* answered 401, does not reach its handler and does not touch the table.
C18_OnlyAuthenticated ==
    (b_req.path \notin (exempt_paths \cup {"none"}) /\ ~ValidKey /\ ~ValidBasic) =>
        /\ b_resp.status = 401
        /\ ~b_resp.handled
        /\ b_resp.db = "none"

\* C21: a decode starts with an empty accumulator; while it runs, the
\* accumulator holds the bytes of the blocks read in this iteration and
\* nothing else; the string it returns is all earlier blocks of this
\* iteration followed by the part of the last block before its first '#',
\* so the bytes behind that '#' are in no returned string.
C21_NothingSurvives ==
    /\ (u_pc = "read" /\ u_rx = <<>>) => data_bytes = <<>>
    /\ u_pc = "read" => data_bytes = RxBytes
    /\ FrameDecoded =>
          LET n    == Len(u_rx)
              last == u_rx[n].block
              p    == FirstIndex(last, SENTINEL)
          IN /\ data_str = Join([i \in 1..(n - 1) |-> u_rx[i].block])
                               \o SubSeq(last, 1, p - 1)
             /\ Len(data_str) = (n - 1) * BLOCK_LEN + p - 1

\* a decode that returned at the first of two '#' of its second block: the
\* second '#' and the bytes around it are dropped
C21_Witness ==
    /\ u_pc = "parse"
    /\ Len(u_rx) = 2
    /\ Count(u_rx[2].block, SENTINEL) = 2
    /\ FirstIndex(u_rx[2].block, SENTINEL) < BLOCK_LEN - 1
    /\ ~Contains(data_str, SENTINEL)

\* C22: in each loop a step that begins an iteration is the step out of
\* the sleep, the step out of the sleep only begins the next iteration, an
\* iteration reaches its sleep from inside its body whether it succeeded,
\* was skipped or failed, and the first bus read (uplink) or GET (downlink)
\* of an iteration is made after that step; a loop has one position, so
\* two of its iterations never overlap.
C22_SleepBetweenIterations ==
    [][ /\ u_pc' = "call" => (u_pc = "sleep" \/ UNCHANGED uvars)
        /\ u_pc = "sleep" => u_pc' \in {"sleep", "call"}
        /\ (u_pc' = "sleep" /\ u_pc # "sleep") => u_pc \in {"read", "parse", "send_hum"}
        /\ (u_rx = <<>> /\ u_rx' # <<>>) => (u_pc = "read" /\ posts = <<>> /\ u_log = <<>>)
        /\ d_pc' = "get" => (d_pc = "sleep" \/ UNCHANGED dvars)
        /\ d_pc = "sleep" => d_pc' \in {"sleep", "get"}
        /\ (d_pc' = "sleep" /\ d_pc # "sleep") => d_pc \in {"get", "write"}
        /\ (d_resp = NoResponse /\ d_resp' # NoResponse) =>
              (d_pc = "get" /\ d_tx = <<>> /\ d_log = <<>>)
      ]_vars

\* a skipped uplink iteration and a completed downlink iteration, both in
\* their sleep
C22_Witness ==
    /\ u_pc = "sleep"
    /\ u_log = <<"Invalid I2C data">>
    /\ d_pc = "sleep"
    /\ Len(d_tx) = 1
    /\ d_tx[1].ok

\* the uplink is between two block reads of one decode
MidDecode == u_pc = "read" /\ u_rx # <<>>

\* C23: nothing keeps the downlink off the bus during a decode: whenever
\* the uplink is between two block reads of a frame and the downlink is at
\* its write, the write transaction can be issued at once and leaves the
\* decode in progress, and the next block read of the decode can follow
\* whatever the downlink has done.
C23_WriteBetweenReads ==
    /\ (MidDecode /\ d_pc = "write") =>
          ENABLED (D_Write /\ u_pc' = "read" /\ u_rx' = u_rx
                      /\ Len(d_tx') = Len(d_tx) + 1)
    /\ (MidDecode /\ Len(u_rx) < MaxBlockReads) => ENABLED U_Read(FewBlocks)

\* the first block of a frame has been read without '#', the downlink has
\* fetched a value and issues its write before the block with the '#'
C23_Witness ==
    /\ MidDecode
    /\ Len(u_rx) = 1
    /\ u_rx[1].ok
    /\ d_pc = "write"
    /\ d_tx = <<>>
    /\ ENABLED (D_Write /\ d_tx'[1].ok /\ u_pc' = "read" /\ data_bytes' = data_bytes)
    /\ ENABLED (U_Read(FewBlocks) /\ u_pc' = "parse")

\* C24: a step that changes the downlink's state leaves the uplink's state
\* (accumulator, decoded string, fields, position, records) as it was, a
\* step that changes the uplink's state leaves the downlink's state
\* (response, fetched value, position, records) as it was, and the
\* configuration both read is never written.
C24_NoSharedState ==
    [][ /\ dvars' # dvars => uvars' = uvars
        /\ uvars' # uvars => dvars' = dvars
        /\ cvars' = cvars
      ]_vars

\* both loops in the middle of an iteration with state of their own
C24_Witness ==
    /\ u_pc = "send_hum"
    /\ Len(posts) = 1
    /\ data_bytes # <<>>
    /\ d_pc = "sleep"
    /\ ~status.none
    /\ Len(d_tx) = 1
    /\ ~d_tx[1].ok

\* C25: for a frame of two fields the uplink has posted nothing before the
\* temperature POST; when the humidity POST is about to be issued exactly
\* the temperature POST has completed, with its outcome known, under the
\* name "temperature_msa_room" and with the text before the comma; the
\* second POST carries "humidity_msa_room" and the text behind the comma.
C25_OrderAndNaming ==
    /\ u_pc = "send_temp" => posts = <<>>
    /\ u_pc = "send_hum" => Len(posts) = 1
    /\ posts # <<>> =>
          /\ Count(data_str, COMMA) = 1
          /\ posts[1].sensor_type = "temperature_msa_room"
          /\ posts[1].value = SubSeq(data_str, 1, FirstIndex(data_str, COMMA) - 1)
          /\ posts[1].outcome \in PostOutcomes
    /\ Len(posts) = 2 =>
          /\ u_pc = "sleep"
          /\ posts[2].sensor_type = "humidity_msa_room"
          /\ posts[2].value =
                SubSeq(data_str, FirstIndex(data_str, COMMA) + 1, Len(data_str))

\* the temperature POST was refused and the humidity POST is next
C25_Witness ==
    /\ u_pc = "send_hum"
    /\ Len(posts) = 1
    /\ posts[1].outcome = "refused"
    /\ temp # hum

\* positions of the readings of type t in a table, and the value of the
\* one added last
StoredIn(rows, t) == { i \in 1..Len(rows) : rows[i].sensor_type = t }
LatestOf(rows, t) ==
    rows[CHOOSE i \in StoredIn(rows, t) : \A q \in StoredIn(rows, t) : q <= i].value

\* the request just answered was an add that reached the handler with a
\* non-empty sensor_type and a non-empty value
AddedNow(req, resp) ==
    /\ req.path = "/sensors/add"
    /\ resp.handled
    /\ Truthy(req.sensor_type)
    /\ Truthy(req.value)

\* C26: an add with non-empty t and v answers 200 {"status":"ok"} and
\* makes v the latest reading of t, leaving the latest reading of every
\* other type as it was; no other request changes the table; and an
\* answered GET for t with limit 1 carries exactly one reading, the latest
\* of t.  So the GET shows v until the next such add for t.
C26_ReadAfterWrite ==
    [][ LET req  == b_req'
            resp == b_resp'
        IN /\ AddedNow(req, resp) =>
                 /\ resp.status = 200 /\ resp.kind = "ok"
                 /\ StoredIn(sensor_data', req.sensor_type.s) # {}
                 /\ LatestOf(sensor_data', req.sensor_type.s) = req.value.s
                 /\ \A o \in {BATHROOM_MAIN, ROOM_ENTRANCE} \ {req.sensor_type.s} :
                       /\ StoredIn(sensor_data', o) = StoredIn(sensor_data, o)
                       /\ StoredIn(sensor_data, o) # {} =>
                             LatestOf(sensor_data', o) = LatestOf(sensor_data, o)
           /\ ~AddedNow(req, resp) => sensor_data' = sensor_data
           /\ (/\ req.path = "/sensors/get"
               /\ resp.handled
               /\ Truthy(req.sensor_type)
               /\ ArgInt(req.limit, 10) = 1
               /\ StoredIn(sensor_data', req.sensor_type.s) # {}) =>
                 resp.rows = << [sensor_type |-> req.sensor_type.s,
                                 value |-> Str(LatestOf(sensor_data', req.sensor_type.s))] >>
      ]_vars

\* a GET for bathroom_main with limit 1 after an add for bathroom_main and
\* a later add for room_entrance
C26_Witness ==
    /\ b_req.path = "/sensors/get"
    /\ b_resp.handled
    /\ b_req.sensor_type = Str(BATHROOM_MAIN)
    /\ b_req.limit = Str(<<49>>)
    /\ Len(sensor_data) = 2
    /\ sensor_data[1].sensor_type = BATHROOM_MAIN
    /\ sensor_data[2].sensor_type = ROOM_ENTRANCE
    /\ sensor_data[1].value # sensor_data[2].value
    /\ b_resp.rows = << [sensor_type |-> BATHROOM_MAIN,
                         value |-> Str(sensor_data[1].value)] >>

\* C28: while no administrator is configured, a request to a path other
\* than "/" that carries Basic credentials, the empty ones included, and no
\* valid API key is answered 401 and does not reach its handler.
C28_NoAdminNoBasic ==
    (/\ ADMIN_USER = Absent
     /\ ADMIN_PASSWORD = Absent
     /\ b_req.path \notin (exempt_paths \cup {"none"})
     /\ b_req.authorization.present
     /\ ~ValidKey) =>
        /\ b_resp.status = 401
        /\ ~b_resp.handled

\* the POST attempt made in this step, if any
NewPost == posts'[Len(posts')]

\* C27: an add that reaches the handler without a non-empty sensor_type
\* and a non-empty value leaves the table as it was and answers 200
\* {"status":"ok"}; so when the uplink POSTs an empty field and the backend
\* answers, with the key accepted, the POST succeeds and the uplink prints
\* that the field was sent, while the table has gained no reading.
C27_EmptyAddIsOk ==
    [][ /\ (/\ b_req'.path = "/sensors/add"
            /\ b_resp'.handled
            /\ ~(Truthy(b_req'.sensor_type) /\ Truthy(b_req'.value))) =>
               /\ sensor_data' = sensor_data
               /\ b_resp'.status = 200
               /\ b_resp'.kind = "ok"
               /\ b_resp'.db = "none"
        /\ (Len(posts') = Len(posts) + 1 /\ NewPost.value = <<>>) =>
               /\ sensor_data' = sensor_data
               /\ (b_resp' # b_resp /\ b_resp'.handled) =>
                     NewPost.outcome = "ok"
               /\ NewPost.outcome = "ok" =>
                     u_log' = Append(u_log, "Sent")
      ]_vars

\* the frame ",2#": the empty temperature was answered 200 and printed as
\* sent, and the table is still empty
C27_Witness ==
    /\ u_pc = "send_hum"
    /\ data_str = <<COMMA, 50>>
    /\ Len(posts) = 1
    /\ posts[1].value = <<>>
    /\ posts[1].outcome = "ok"
    /\ u_log = <<"Sent">>
    /\ b_req.value = Str(<<>>)
    /\ b_resp.status = 200
    /\ sensor_data = <<>>

\* C29: a decoded string with exactly one comma is never skipped: once it
\* is split, the iteration prints neither "Invalid I2C data" nor an error
\* of the decode, and it ends with exactly two POST attempts that carry the
\* two parts of the string byte for byte, whatever they contain.
C29_NoValidation ==
    (FrameDecoded /\ Count(data_str, COMMA) = 1 /\ u_pc # "parse") =>
        /\ u_pc \in {"send_temp", "send_hum", "sleep"}
        /\ \A i \in 1..Len(u_log) : u_log[i] \in {"Sent", "Error sending"}
        /\ temp \o <<COMMA>> \o hum = data_str
        /\ u_pc = "sleep" =>
              /\ Len(posts) = 2
              /\ posts[1].value = temp
              /\ posts[2].value = hum

\* a frame whose first field is not a number and whose second is empty,
\* after both POST attempts
C29_Witness ==
    /\ u_pc = "sleep"
    /\ Len(posts) = 2
    /\ posts[1].value # <<>>
    /\ posts[1].value[Len(posts[1].value)] = 120
    /\ posts[2].value = <<>>
    /\ posts[1].outcome = "ok"
    /\ posts[2].outcome = "ok"

\* neither the sensor type nor the text of the value holds ',' or '#'
PlainFields ==
    /\ ~Contains(w_sensor_type, COMMA) /\ ~Contains(w_sensor_type, SENTINEL)
    /\ ~Contains(FloatStr(w_value), COMMA) /\ ~Contains(FloatStr(w_value), SENTINEL)

\* C30: when the frame encoded from a sensor type and a value without ','
\* and '#' is read back in blocks of 20 bytes, the decode returns
\* "<sensor_type>,<value>" whatever fills the last block, the split gives
\* the pair (sensor_type, value), and the iteration is skipped only when a
\* block read failed.
C30_RoundTrip ==
    PlainFields =>
        /\ u_pc \in {"parse", "send_temp"} =>
              data_str = w_sensor_type \o <<COMMA>> \o FloatStr(w_value)
        /\ u_pc = "send_temp" =>
              /\ temp = w_sensor_type
              /\ hum = FloatStr(w_value)
        /\ u_pc = "sleep" => ~u_rx[Len(u_rx)].ok

\* "temperature_msa_room,-1.0#", 26 bytes, read back in two blocks
C30_Witness ==
    /\ u_pc = "send_temp"
    /\ Len(u_rx) = 2
    /\ Len(d_tx[1].block) > BLOCK_LEN
    /\ temp = TEMPERATURE_MSA_ROOM
    /\ w_value.neg
    /\ hum = FloatStr(w_value)

=============================================================================
